---------------------------- MODULE Spec2Model ----------------------------
(***************************************************************************)
(* A model of the two in-memory trackers of the repository:                *)
(*   - CarRental.py: vehicles indexed by location, bookings with the       *)
(*     lifecycle BOOKED -> RENTED -> COMPLETED, and the user facade;       *)
(*   - ilovepdf/ilovepdf.py: PDF operations with the lifecycle             *)
(*     PENDING -> {COMPLETED, FAILED} and their repository.                *)
(* Spec drives one booking service directly, SpecFacade drives two user    *)
(* facades whose services share the booking id counter, SpecPdf drives the *)
(* PDF managers of two users over one repository, and SpecFiles drives the *)
(* file managers of two users over one file store beside merges.           *)
(***************************************************************************)
EXTENDS Integers, Sequences, FiniteSets

\* ------------------------------------------------------------------ bounds
MaxVehicles == 2  \* vehicles added, over all vehicle managers
MaxBookings == 2  \* Booking objects constructed, over all services
MaxOperations == 2  \* Operation objects constructed, over all PDF managers
MaxUploads == 2  \* files uploaded, over all file managers

\* ------------------------------------------------------------ input domains
Managers == {"m1", "m2"}          \* UserVehicleManager instances of the process
Locations == {"Bangalore", "Delhi"}
VehicleNames == {"Car", "Bike"}
Usernames == {"prateek", "asha"}
BookingIdArgs == 1 .. (MaxBookings + 1)   \* ids a caller may pass, unknown ones included

\* Python's None, and a present value x, for results of type "int | None".
None == << >>
Some(x) == << x >>

VARIABLES
    vehicle_loc_hashmap,   \* [manager -> dict location -> list of Vehicle]
    booking_records,       \* [manager -> dict booking_id -> Booking]
    booking_counter,       \* Booking.booking_counter, the class attribute
    user_bookings,         \* [manager -> dict username -> list of booking ids]
    last,                  \* the call just made: its name, receiver, id argument, return value
    chain                  \* how far the last calls follow createBooking, rentVehicle, returnVehicle on one booking

VARIABLES
    operations,            \* OperationRepository.operations: dict operation id -> Operation
    user_operations,       \* [UserPdfManager (by its user) -> dict username -> list of operation ids]
    uuid_issued,           \* how many uuid4() tokens the process has drawn
    running,               \* the facade call in progress, between recording and executing
    pdf_last,              \* the call just finished: its name, id argument, return value
    storage,               \* FileManager.storage: dict file id -> uploaded object
    user_files             \* [UserFileManager (by its user) -> dict username -> list of file ids]

pdfVars == << operations, user_operations, uuid_issued, running, pdf_last, storage, user_files >>

carVars == << vehicle_loc_hashmap, booking_records, booking_counter, user_bookings, last, chain >>

\* ------------------------------------------------------------------ entities
User(username, location) == [username |-> username, location |-> location]

DemoUser == User("prateek", "Bangalore")

Users == { User(u, "Bangalore") : u \in Usernames }

Vehicle(vehicle_name, plate_number, vehicle_location) ==
    [vehicle_name |-> vehicle_name, plate_number |-> plate_number,
     vehicle_location |-> vehicle_location, vehicleisavailable |-> TRUE]

\* The vehicles callers add: two Cars at one location, a Bike carrying the
\* first Car's plate at that location, and a Car carrying it at another one.
VehicleInputs ==
    { Vehicle("Car", "KA01", "Bangalore"), Vehicle("Car", "KA02", "Bangalore"),
      Vehicle("Bike", "KA01", "Bangalore"), Vehicle("Car", "KA01", "Delhi") }

\* The vehicles of the demo.
FacadeVehicleInputs ==
    { Vehicle("Car", "KA01", "Bangalore") }

\* Booking.__init__ with the class counter at `counter`.
Booking(user, vehicle, counter) ==
    [booking_id |-> counter, username |-> user.username,
     vehicle_name |-> vehicle.vehicle_name, plate_number |-> vehicle.plate_number,
     location |-> vehicle.vehicle_location, status |-> "BOOKED"]

\* The increment of line 64 left out.
NextCounter_Stuck(counter) == counter

NextCounter(counter) == counter + 1

\* ------------------------------------------------------------- dict helpers
\* d[k] = x on a dict d (a function whose DOMAIN is the key set).
DictPut(d, k, x) == [j \in (DOMAIN d) \cup {k} |-> IF j = k THEN x ELSE d[j]]

\* d[k] = [x]: the list is replaced, not appended to.
SetdefaultAppend_Overwrites(d, k, x) == DictPut(d, k, << x >>)

\* d.setdefault(k, []).append(x)
SetdefaultAppend(d, k, x) ==
    DictPut(d, k, Append(IF k \in DOMAIN d THEN d[k] ELSE << >>, x))

Min(S) == CHOOSE x \in S : \A y \in S : x <= y

\* --------------------------------------------------------- VehicleManager
getVehicles(m, location) ==
    IF location \in DOMAIN vehicle_loc_hashmap[m]
    THEN vehicle_loc_hashmap[m][location] ELSE << >>

\* The number of vehicles held by all vehicle managers.
RECURSIVE SumLens(_)
SumLens(S) ==
    IF S = {} THEN 0
    ELSE LET p == CHOOSE q \in S : TRUE
         IN  Len(getVehicles(p[1], p[2])) + SumLens(S \ {p})

TotalVehicles == SumLens(Managers \X Locations)

\* addvehicle(vehicle): append to the location's list, creating it if absent.
addvehicle(m, vehicle) ==
    /\ TotalVehicles < MaxVehicles        \* the model's bound, not the code's
    /\ vehicle_loc_hashmap' =
         [vehicle_loc_hashmap EXCEPT
            ![m] = SetdefaultAppend(@, vehicle.vehicle_location, vehicle)]
    /\ last' = [op |-> "addvehicle", mgr |-> m, arg |-> 0, ret |-> TRUE]
    /\ chain' = [stage |-> 0, veh |-> 0]
    /\ UNCHANGED << booking_records, booking_counter, user_bookings >>

\* ------------------------------------------------- VehicleBookRentManager
\* CreateMatch without its availability test.
CreateMatch_AnyState(vehicle, vehicle_name) ==
    vehicle.vehicle_name = vehicle_name

\* The test of createBooking's loop (line 148).
CreateMatch(vehicle, vehicle_name) ==
    vehicle.vehicle_name = vehicle_name /\ vehicle.vehicleisavailable

\* RentMatch without its availability test.
RentMatch_AnyState(vehicle, booking) ==
    vehicle.plate_number = booking.plate_number

\* RentMatch looking for the booking's vehicle name instead of its plate.
RentMatch_ByName(vehicle, booking) ==
    vehicle.vehicle_name = booking.vehicle_name /\ vehicle.vehicleisavailable

\* The test of rentVehicle's loop (line 166).
RentMatch(vehicle, booking) ==
    vehicle.plate_number = booking.plate_number /\ vehicle.vehicleisavailable

\* ReturnMatch comparing the vehicle's plate with the booking's vehicle name.
ReturnMatch_NameForPlate(vehicle, booking) ==
    vehicle.plate_number = booking.vehicle_name

\* The test of returnVehicle's loop (line 184).
ReturnMatch(vehicle, booking) ==
    vehicle.plate_number = booking.plate_number

\* The early returns of rentVehicle and returnVehicle: the booking is absent
\* (dict.get gives None) or its status is not the expected one.
\* The early returns with the status test left out or copied from the other method.
RentRefused_AbsentOnly(m, booking_id) ==
    booking_id \notin DOMAIN booking_records[m]

ReturnRefused_RentsGuard(m, booking_id) ==
    \/ booking_id \notin DOMAIN booking_records[m]
    \/ booking_records[m][booking_id].status # "BOOKED"

ReturnRefused_AbsentOnly(m, booking_id) ==
    booking_id \notin DOMAIN booking_records[m]

RentRefused(m, booking_id) ==
    \/ booking_id \notin DOMAIN booking_records[m]
    \/ booking_records[m][booking_id].status # "BOOKED"

ReturnRefused(m, booking_id) ==
    \/ booking_id \notin DOMAIN booking_records[m]
    \/ booking_records[m][booking_id].status # "RENTED"

\* The loop of createBooking keeping the last match instead of stopping at the first.
FirstCreateMatch_Last(vs, vehicle_name) ==
    LET S == {i \in 1 .. Len(vs) : CreateMatch(vs[i], vehicle_name)}
    IN  IF S = {} THEN 0 ELSE CHOOSE x \in S : \A y \in S : y <= x

\* The position of the first vehicle of the list the loop stops at, 0 if none.
FirstCreateMatch(vs, vehicle_name) ==
    LET S == {i \in 1 .. Len(vs) : CreateMatch(vs[i], vehicle_name)}
    IN  IF S = {} THEN 0 ELSE Min(S)

FirstRentMatch(vs, booking) ==
    LET S == {i \in 1 .. Len(vs) : RentMatch(vs[i], booking)}
    IN  IF S = {} THEN 0 ELSE Min(S)

FirstReturnMatch(vs, booking) ==
    LET S == {i \in 1 .. Len(vs) : ReturnMatch(vs[i], booking)}
    IN  IF S = {} THEN 0 ELSE Min(S)

\* createBooking reserving the vehicle it binds: it marks it unavailable.
CreateOutcome_Reserves(m, user, vehicle_name, location) ==
    LET vs == getVehicles(m, location)
        i  == FirstCreateMatch(vs, vehicle_name)
    IN  IF i # 0
        THEN LET booking == Booking(user, vs[i], booking_counter)
             IN  [booking_id |-> Some(booking.booking_id),
                  index |-> [vehicle_loc_hashmap[m] EXCEPT
                               ![location] = [vs EXCEPT ![i].vehicleisavailable = FALSE]],
                  records |-> DictPut(booking_records[m], booking.booking_id, booking),
                  counter |-> NextCounter(booking_counter),
                  veh |-> i]
        ELSE [booking_id |-> None, index |-> vehicle_loc_hashmap[m],
              records |-> booking_records[m],
              counter |-> booking_counter, veh |-> 0]

\* What createBooking does to the service: the id it returns (None if no
\* vehicle matched), the index (untouched), the records and the class counter
\* after the call, and the position of the vehicle it bound.
CreateOutcome(m, user, vehicle_name, location) ==
    LET vs == getVehicles(m, location)
        i  == FirstCreateMatch(vs, vehicle_name)
    IN  IF i # 0
        THEN LET booking == Booking(user, vs[i], booking_counter)
             IN  [booking_id |-> Some(booking.booking_id),
                  index |-> vehicle_loc_hashmap[m],
                  records |-> DictPut(booking_records[m], booking.booking_id, booking),
                  counter |-> NextCounter(booking_counter),
                  veh |-> i]
        ELSE [booking_id |-> None, index |-> vehicle_loc_hashmap[m],
              records |-> booking_records[m],
              counter |-> booking_counter, veh |-> 0]

\* createBooking called on the service directly.
createBooking(m, user, vehicle_name, location) ==
    LET out == CreateOutcome(m, user, vehicle_name, location)
    IN  /\ out.booking_id # None => booking_counter <= MaxBookings   \* the model's bound
        /\ booking_records' = [booking_records EXCEPT ![m] = out.records]
        /\ booking_counter' = out.counter
        /\ last' = [op |-> "createBooking", mgr |-> m, arg |-> 0, ret |-> out.booking_id]
        /\ chain' = [stage |-> IF out.booking_id # None THEN 1 ELSE 0, veh |-> out.veh]
        /\ vehicle_loc_hashmap' = [vehicle_loc_hashmap EXCEPT ![m] = out.index]
        /\ UNCHANGED user_bookings

\* The flag of every vehicle of the list set to b, not only the one at i.
SetAvailable_WholeList(vs, i, b) ==
    [j \in DOMAIN vs |-> [vs[j] EXCEPT !.vehicleisavailable = b]]

\* The vehicle list with the flag of the vehicle at position i set to b.
SetAvailable(vs, i, b) == [vs EXCEPT ![i].vehicleisavailable = b]

\* What rentVehicle / returnVehicle do to the service: the value returned, the
\* index and the records after the call.
RentOutcome(m, booking_id) ==
    IF RentRefused(m, booking_id)
    THEN [ret |-> FALSE, index |-> vehicle_loc_hashmap[m], records |-> booking_records[m]]
    ELSE LET booking == booking_records[m][booking_id]
             vs == getVehicles(m, booking.location)
             i  == FirstRentMatch(vs, booking)
         IN  IF i # 0
             THEN [ret |-> TRUE,
                   index |-> [vehicle_loc_hashmap[m] EXCEPT
                                ![booking.location] = SetAvailable(vs, i, FALSE)],
                   records |-> [booking_records[m] EXCEPT ![booking_id].status = "RENTED"]]
             ELSE [ret |-> FALSE, index |-> vehicle_loc_hashmap[m],
                   records |-> booking_records[m]]

ReturnOutcome(m, booking_id) ==
    IF ReturnRefused(m, booking_id)
    THEN [ret |-> FALSE, index |-> vehicle_loc_hashmap[m], records |-> booking_records[m]]
    ELSE LET booking == booking_records[m][booking_id]
             vs == getVehicles(m, booking.location)
             i  == FirstReturnMatch(vs, booking)
         IN  IF i # 0
             THEN [ret |-> TRUE,
                   index |-> [vehicle_loc_hashmap[m] EXCEPT
                                ![booking.location] = SetAvailable(vs, i, TRUE)],
                   records |-> [booking_records[m] EXCEPT ![booking_id].status = "COMPLETED"]]
             ELSE [ret |-> FALSE, index |-> vehicle_loc_hashmap[m],
                   records |-> booking_records[m]]

\* chain.stage counts how many of the calls createBooking (returning an id b),
\* rentVehicle(b), returnVehicle(b) the last calls were, in this order and on
\* one service; chain.veh is the position, in its location's list, of the
\* vehicle createBooking bound b to.
ChainAfterRent(m, booking_id) ==
    IF chain.stage = 1 /\ last.mgr = m /\ last.ret = Some(booking_id)
    THEN [stage |-> 2, veh |-> chain.veh]
    ELSE [stage |-> 0, veh |-> 0]

ChainAfterReturn(m, booking_id) ==
    IF chain.stage = 2 /\ last.mgr = m /\ last.arg = booking_id
    THEN [stage |-> 3, veh |-> chain.veh]
    ELSE [stage |-> 0, veh |-> 0]

rentVehicle(m, booking_id) ==
    LET out == RentOutcome(m, booking_id)
    IN  /\ vehicle_loc_hashmap' = [vehicle_loc_hashmap EXCEPT ![m] = out.index]
        /\ booking_records' = [booking_records EXCEPT ![m] = out.records]
        /\ last' = [op |-> "rentVehicle", mgr |-> m, arg |-> booking_id, ret |-> out.ret]
        /\ chain' = ChainAfterRent(m, booking_id)
        /\ UNCHANGED << booking_counter, user_bookings >>

returnVehicle(m, booking_id) ==
    LET out == ReturnOutcome(m, booking_id)
    IN  /\ vehicle_loc_hashmap' = [vehicle_loc_hashmap EXCEPT ![m] = out.index]
        /\ booking_records' = [booking_records EXCEPT ![m] = out.records]
        /\ last' = [op |-> "returnVehicle", mgr |-> m, arg |-> booking_id, ret |-> out.ret]
        /\ chain' = ChainAfterReturn(m, booking_id)
        /\ UNCHANGED << booking_counter, user_bookings >>

\* dict.values() in insertion order, as a list: the bookings at the keys
\* `order` (a sequence of keys of the dict) names, in that order.
RECURSIVE ValuesInOrder(_, _)
ValuesInOrder(d, order) ==
    IF order = << >> THEN << >>
    ELSE << d[Head(order)] >> \o ValuesInOrder(d, Tail(order))

\* The keys of a dict whose keys were inserted in increasing order.
RECURSIVE KeysAscending(_)
KeysAscending(K) ==
    IF K = {} THEN << >>
    ELSE << Min(K) >> \o KeysAscending(K \ {Min(K)})

\* showBookings with the bookings that are COMPLETED left out.
BookingList_OpenOnly(m) ==
    LET open == {b \in DOMAIN booking_records[m] :
                   booking_records[m][b].status # "COMPLETED"}
    IN  ValuesInOrder(booking_records[m], KeysAscending(open))

\* list(self.booking_records.values())
BookingList(m) ==
    ValuesInOrder(booking_records[m], KeysAscending(DOMAIN booking_records[m]))

\* showBookings: the list is returned, nothing is written.
showBookings(m) ==
    /\ last' = [op |-> "showBookings", mgr |-> m, arg |-> 0, ret |-> BookingList(m)]
    /\ chain' = [stage |-> 0, veh |-> 0]
    /\ UNCHANGED << vehicle_loc_hashmap, booking_records, booking_counter, user_bookings >>

\* ----------------------------------------------------- UserVehicleManager
\* Python's truth value of an "int | None" result: None and 0 are falsy.
Truthy(x) == x # None /\ x[1] # 0

\* Userbookvehicle: createBooking, then the id is filed under the username
\* and returned if it is truthy; otherwise None is returned.
Userbookvehicle(m, user, vehicle_name, location) ==
    LET out == CreateOutcome(m, user, vehicle_name, location)
    IN  /\ out.booking_id # None => booking_counter <= MaxBookings   \* the model's bound
        /\ booking_records' = [booking_records EXCEPT ![m] = out.records]
        /\ booking_counter' = out.counter
        /\ user_bookings' =
             IF Truthy(out.booking_id)
             THEN [user_bookings EXCEPT
                     ![m] = SetdefaultAppend(@, user.username, out.booking_id[1])]
             ELSE user_bookings
        /\ last' = [op |-> "Userbookvehicle", mgr |-> m, arg |-> 0,
                    ret |-> IF Truthy(out.booking_id) THEN out.booking_id ELSE None]
        /\ chain' = [stage |-> IF out.booking_id # None THEN 1 ELSE 0, veh |-> out.veh]
        /\ vehicle_loc_hashmap' = [vehicle_loc_hashmap EXCEPT ![m] = out.index]

UserrentVehicle(m, booking_id) ==
    LET out == RentOutcome(m, booking_id)
    IN  /\ vehicle_loc_hashmap' = [vehicle_loc_hashmap EXCEPT ![m] = out.index]
        /\ booking_records' = [booking_records EXCEPT ![m] = out.records]
        /\ last' = [op |-> "UserrentVehicle", mgr |-> m, arg |-> booking_id, ret |-> out.ret]
        /\ chain' = ChainAfterRent(m, booking_id)
        /\ UNCHANGED << booking_counter, user_bookings >>

UserreturnVehcile(m, booking_id) ==
    LET out == ReturnOutcome(m, booking_id)
    IN  /\ vehicle_loc_hashmap' = [vehicle_loc_hashmap EXCEPT ![m] = out.index]
        /\ booking_records' = [booking_records EXCEPT ![m] = out.records]
        /\ last' = [op |-> "UserreturnVehcile", mgr |-> m, arg |-> booking_id, ret |-> out.ret]
        /\ chain' = ChainAfterReturn(m, booking_id)
        /\ UNCHANGED << booking_counter, user_bookings >>

\* -------------------------------------------------- the vehicle tracker
\* Fresh managers: empty index, no records, the class counter at 1.
CarInit ==
    /\ vehicle_loc_hashmap = [m \in Managers |-> << >>]
    /\ booking_records = [m \in Managers |-> << >>]
    /\ booking_counter = 1
    /\ user_bookings = [m \in Managers |-> << >>]
    /\ last = [op |-> "init", mgr |-> "m1", arg |-> 0, ret |-> TRUE]
    /\ chain = [stage |-> 0, veh |-> 0]

\* The service driven directly: one VehicleBookRentManager and its index.
ServiceNext ==
    \/ \E v \in VehicleInputs : addvehicle("m1", v) /\ UNCHANGED pdfVars
    \/ \E n \in VehicleNames, l \in Locations :
          createBooking("m1", DemoUser, n, l) /\ UNCHANGED pdfVars
    \/ \E b \in BookingIdArgs : rentVehicle("m1", b) /\ UNCHANGED pdfVars
    \/ \E b \in BookingIdArgs : returnVehicle("m1", b) /\ UNCHANGED pdfVars
    \/ showBookings("m1") /\ UNCHANGED pdfVars

\* The facades of the process: two UserVehicleManagers, each over a service of
\* its own, all bookings drawing their ids from the one class counter.
FacadeNext ==
    \/ \E m \in Managers, v \in FacadeVehicleInputs :
          addvehicle(m, v) /\ UNCHANGED pdfVars
    \/ \E m \in Managers, u \in Users, n \in VehicleNames :
          Userbookvehicle(m, u, n, "Bangalore") /\ UNCHANGED pdfVars
    \/ \E m \in Managers :
          createBooking(m, DemoUser, "Car", "Bangalore") /\ UNCHANGED pdfVars
    \/ \E m \in Managers, b \in 1 .. MaxBookings :
          UserrentVehicle(m, b) /\ UNCHANGED pdfVars
    \/ \E m \in Managers, b \in 1 .. MaxBookings :
          UserreturnVehcile(m, b) /\ UNCHANGED pdfVars

\* ============================================================ ilovepdf.py
\* uuid.uuid4(): a token no earlier call returned. Tokens are numbered in the
\* order they are drawn.
uuid4 == uuid_issued + 1

PdfUsers == {"alex", "bob"}

PDFDocument(id, name, pages) == [id |-> id, name |-> name, pages |-> pages]

\* The documents of the demo, constructed before any facade call: they hold the
\* first two tokens.
InputDocs ==
    { PDFDocument(1, "file1.pdf", << 1, 2, 3 >>),
      PDFDocument(2, "file2.pdf", << 4, 5 >>) }

\* Operation.__init__: no output, status PENDING.
Operation(id, username, op_type, input_files) ==
    [id |-> id, user |-> username, type |-> op_type, input_files |-> input_files,
     output_file |-> None, status |-> "PENDING"]

\* mark_completed losing the result.
mark_completed_DropsOutput(operation, output) ==
    [operation EXCEPT !.status = "COMPLETED"]

mark_completed(operation, output) ==
    [operation EXCEPT !.output_file = output, !.status = "COMPLETED"]

\* mark_failed recording the failure as a completion.
mark_failed_AsCompleted(operation) == [operation EXCEPT !.status = "COMPLETED"]

\* mark_failed leaving the status as it was.
mark_failed_KeepsStatus(operation) == operation

mark_failed(operation) == [operation EXCEPT !.status = "FAILED"]

\* OperationRepository.save: upsert by id.
save(repo, operation) == DictPut(repo, operation.id, operation)

\* ---------------------------------------------------------------- PDFService
\* merge reads pdf1.pages and pdf2.pages: it raises when an argument is None.
MergeRaises(pdf1, pdf2) == pdf1 = None \/ pdf2 = None

\* merge putting the pages of the second document first.
merge_Reversed(pdf1, pdf2, id) ==
    Some(PDFDocument(id, "merged.pdf", pdf2[1].pages \o pdf1[1].pages))

\* The document merge returns; its id is the uuid drawn at `id`.
merge(pdf1, pdf2, id) ==
    Some(PDFDocument(id, "merged.pdf", pdf1[1].pages \o pdf2[1].pages))

compress(pdf) == pdf

add_watermark(pdf, page_range) == pdf

\* ------------------------------------------------------------ UserPdfManager
\* What a caller may pass as a document: None, a document of its own, or the
\* output of an earlier operation.
PdfInputs ==
    {None} \cup { Some(d) : d \in InputDocs }
           \cup { operations[i].output_file : i \in DOMAIN operations }

PageRanges == { None, Some(<< 1, 2 >>) }

\* The first half of merge_pdf / compress_pdf / add_watermark: the Operation is
\* constructed (PENDING) and recorded in the repository and in the manager's
\* list; the call then stands before its try block. While a call stands
\* there no other writing call starts: the only steps are ExecuteOperation,
\* the rest of that call, and reads of the repository.
BeginOperation(u, op_type, input_files, page_range) ==
    /\ running = None
    /\ Cardinality(DOMAIN operations) < MaxOperations   \* the model's bound
    /\ LET operation == Operation(uuid4, u, op_type, input_files)
       IN  /\ operations' = save(operations, operation)
           /\ user_operations' =
                [user_operations EXCEPT ![u] = SetdefaultAppend(@, u, operation.id)]
           /\ running' = Some([id |-> operation.id, page_range |-> page_range])
    /\ uuid_issued' = uuid_issued + 1
    /\ UNCHANGED << pdf_last, storage, user_files >>

merge_pdf(u, pdf1, pdf2) == BeginOperation(u, "MERGE", << pdf1, pdf2 >>, None)

compress_pdf(u, pdf) == BeginOperation(u, "COMPRESS", << pdf >>, None)

add_watermark_pdf(u, pdf, page_range) == BeginOperation(u, "WATERMARK", << pdf >>, page_range)

\* The operation as the try/except block of its facade method leaves it.
Executed(operation, page_range) ==
    LET args == operation.input_files
    IN  CASE operation.type = "MERGE" ->
               IF MergeRaises(args[1], args[2])
               THEN mark_failed(operation)
               ELSE mark_completed(operation, merge(args[1], args[2], uuid4))
          [] operation.type = "COMPRESS" ->
               mark_completed(operation, compress(args[1]))
          [] operation.type = "WATERMARK" ->
               mark_completed(operation, add_watermark(args[1], page_range))

\* The second half of the call: the service function runs inside try/except,
\* the operation is marked, and its id is returned.
ExecuteOperation ==
    /\ running # None
    /\ LET id == running[1].id
           done == Executed(operations[id], running[1].page_range)
       IN  /\ operations' = [operations EXCEPT ![id] = done]
           /\ uuid_issued' =
                IF done.type = "MERGE" /\ done.status = "COMPLETED"
                THEN uuid_issued + 1 ELSE uuid_issued
           /\ pdf_last' = [op |-> done.type, arg |-> 0, ret |-> id]
    /\ running' = None
    /\ UNCHANGED << user_operations, storage, user_files >>

\* The ids a caller may pass to a download: those of the operations and of
\* the files stored so far, a document's id, and a token not drawn yet.
IdArgs == DOMAIN operations \cup DOMAIN storage \cup {1, uuid_issued + 1}

\* download_result with its status test inverted.
ResultOf_Inverted(repo, operation_id) ==
    IF operation_id \in DOMAIN repo /\ repo[operation_id].status # "COMPLETED"
    THEN repo[operation_id].output_file
    ELSE None

\* What download_result returns: the output of a stored COMPLETED operation,
\* None otherwise.
ResultOf(repo, operation_id) ==
    IF operation_id \in DOMAIN repo /\ repo[operation_id].status = "COMPLETED"
    THEN repo[operation_id].output_file
    ELSE None

\* download_result only reads the repository. It is the one call that may run
\* while another call stands before its try block (a second thread of the
\* caller): no other way exists to meet an operation that is still PENDING.
download_result(u, operation_id) ==
    /\ pdf_last' = [op |-> "download_result", arg |-> operation_id,
                    ret |-> ResultOf(operations, operation_id)]
    /\ UNCHANGED << operations, user_operations, uuid_issued, running, storage, user_files >>

\* --------------------------------------------- FileManager, UserFileManager
\* upload starting a new dict with the file instead of adding to the old one.
upload_Replaces(store, file_id, file_obj) == [k \in {file_id} |-> file_obj]

\* FileManager.upload: self.storage[file_id] = file_obj
upload(store, file_id, file_obj) == DictPut(store, file_id, file_obj)

\* FileManager.download: self.storage.get(file_id)
download(store, file_id) == IF file_id \in DOMAIN store THEN store[file_id] ELSE None

\* upload_file: the file is stored under a fresh id, the id is filed under the
\* username and returned.
upload_file(u, file_obj) ==
    /\ running = None
    /\ Cardinality(DOMAIN storage) < MaxUploads          \* the model's bound
    /\ LET file_id == uuid4
       IN  /\ storage' = upload(storage, file_id, file_obj)
           /\ user_files' = [user_files EXCEPT ![u] = SetdefaultAppend(@, u, file_id)]
           /\ pdf_last' = [op |-> "upload_file", arg |-> 0, ret |-> file_id]
    /\ uuid_issued' = uuid_issued + 1
    /\ UNCHANGED << operations, user_operations, running >>

download_file(u, file_id) ==
    /\ running = None
    /\ pdf_last' = [op |-> "download_file", arg |-> file_id,
                    ret |-> download(storage, file_id)]
    /\ UNCHANGED << operations, user_operations, uuid_issued, running, storage, user_files >>

PdfInit ==
    /\ operations = << >>
    /\ user_operations = [u \in PdfUsers |-> << >>]
    /\ uuid_issued = Cardinality(InputDocs)
    /\ running = None
    /\ pdf_last = [op |-> "init", arg |-> 0, ret |-> 0]
    /\ storage = << >>
    /\ user_files = [u \in PdfUsers |-> << >>]

PdfNext ==
    \/ \E u \in PdfUsers, a \in PdfInputs, b \in PdfInputs :
          merge_pdf(u, a, b) /\ UNCHANGED carVars
    \/ \E u \in PdfUsers, a \in PdfInputs :
          compress_pdf(u, a) /\ UNCHANGED carVars
    \/ \E u \in PdfUsers, a \in PdfInputs, r \in PageRanges :
          add_watermark_pdf(u, a, r) /\ UNCHANGED carVars
    \/ ExecuteOperation /\ UNCHANGED carVars
    \/ \E u \in PdfUsers, id \in IdArgs :
          download_result(u, id) /\ UNCHANGED carVars

\* What the callers of the file managers pass: None or the demo's first document.
FileInputs == { None, Some(PDFDocument(1, "file1.pdf", << 1, 2, 3 >>)) }

\* The file managers of two users over one FileManager, beside the merges of
\* one of them.
FilesNext ==
    \/ \E u \in PdfUsers, f \in FileInputs :
          upload_file(u, f) /\ UNCHANGED carVars
    \/ \E u \in PdfUsers, id \in IdArgs :
          download_file(u, id) /\ UNCHANGED carVars
    \/ \E a \in FileInputs :
          merge_pdf("alex", a, Some(PDFDocument(2, "file2.pdf", << 4, 5 >>)))
             /\ UNCHANGED carVars
    \/ ExecuteOperation /\ UNCHANGED carVars

vars == << carVars, pdfVars >>

Init == CarInit /\ PdfInit

Next == ServiceNext

Spec == Init /\ [][Next]_vars

SpecFacade == Init /\ [][FacadeNext]_vars

SpecFiles == Init /\ [][FilesNext]_vars

\* ================================================================ claims
\* ------------------------------------------------ helpers of the claims
Service == "m1"

\* The positions (location, index) of the vehicles of manager m.
VehiclePositions(m) ==
    { << l, i >> \in Locations \X (1 .. MaxVehicles) :
        l \in DOMAIN vehicle_loc_hashmap[m] /\ i <= Len(vehicle_loc_hashmap[m][l]) }

VehicleAt(m, pos) == vehicle_loc_hashmap[m][pos[1]][pos[2]]

\* The bookings of manager m that reference `plate` and are RENTED.
RentedOn(m, plate) ==
    { b \in DOMAIN booking_records[m] :
        /\ booking_records[m][b].plate_number = plate
        /\ booking_records[m][b].status = "RENTED" }

\* No other vehicle of manager m carries the plate of the vehicle at pos.
PlateUniqueInIndex(m, pos) ==
    \A q \in VehiclePositions(m) :
        VehicleAt(m, q).plate_number = VehicleAt(m, pos).plate_number => q = pos

\* No other vehicle at the same location carries the plate of the vehicle at pos.
PlateUniqueAtLocation(m, pos) ==
    \A q \in VehiclePositions(m) :
        (q[1] = pos[1] /\ VehicleAt(m, q).plate_number = VehicleAt(m, pos).plate_number)
            => q = pos

RentOps == {"rentVehicle", "UserrentVehicle"}
ReturnOps == {"returnVehicle", "UserreturnVehcile"}
CreateOps == {"createBooking", "Userbookvehicle"}

ChainPos(m, b) == << booking_records[m][b].location, chain.veh >>

\* The step is rentVehicle(b) right after the createBooking that returned b.
RentFollowsCreate ==
    /\ chain.stage = 1
    /\ last'.op \in RentOps /\ last'.mgr = last.mgr /\ Some(last'.arg) = last.ret

\* The step is returnVehicle(b) right after that rentVehicle(b).
ReturnFollowsRent ==
    /\ chain.stage = 2
    /\ last'.op \in ReturnOps /\ last'.mgr = last.mgr /\ last'.arg = last.arg

RentAfterCreateOk ==
    LET m == last.mgr
        b == last.ret[1]
    IN  /\ last'.ret = TRUE
        /\ ~ vehicle_loc_hashmap'[m][ChainPos(m, b)[1]][chain.veh].vehicleisavailable

ReturnAfterRentOk ==
    LET m == last.mgr
        b == last.arg
    IN  /\ last.ret = TRUE
        /\ last'.ret = TRUE
        /\ vehicle_loc_hashmap'[m][ChainPos(m, b)[1]][chain.veh].vehicleisavailable
        /\ booking_records'[m][b].status = "COMPLETED"

RentStepOn(m, b) == last'.op \in RentOps /\ last'.mgr = m /\ last'.arg = b

ServiceUnchanged ==
    /\ vehicle_loc_hashmap' = vehicle_loc_hashmap
    /\ booking_records' = booking_records

\* C3: a rentVehicle(b) call on a booking that a rentVehicle(b) call has already
\* rented returns False and changes no booking and no vehicle, whatever
\* happened in between. A booking is RENTED or COMPLETED exactly when a rent of
\* it has succeeded: it becomes RENTED only in a successful rentVehicle on it,
\* a successful rentVehicle leaves it RENTED, and from RENTED or COMPLETED it
\* never returns to BOOKED.
C3_SecondRentRefused ==
    [][ \A m \in Managers : \A b \in DOMAIN booking_records[m] :
          LET status == booking_records[m][b].status
              status2 == booking_records'[m][b].status
          IN  /\ (RentStepOn(m, b) /\ status \in {"RENTED", "COMPLETED"})
                   => (last'.ret = FALSE /\ ServiceUnchanged)
              /\ (status # "RENTED" /\ status2 = "RENTED")
                   => (RentStepOn(m, b) /\ last'.ret = TRUE /\ status = "BOOKED")
              /\ (RentStepOn(m, b) /\ last'.ret = TRUE) => status2 = "RENTED"
              /\ status \in {"RENTED", "COMPLETED"} => status2 \in {"RENTED", "COMPLETED"}
      ]_vars

\* rentVehicle has just been refused on a booking that was rented and returned,
\* although its vehicle is available again.
C3_Witness ==
    /\ last.op = "rentVehicle" /\ last.ret = FALSE
    /\ last.arg \in DOMAIN booking_records[Service]
    /\ booking_records[Service][last.arg].status = "COMPLETED"
    /\ \E pos \in VehiclePositions(Service) :
         /\ VehicleAt(Service, pos).plate_number
              = booking_records[Service][last.arg].plate_number
         /\ VehicleAt(Service, pos).vehicleisavailable

\* ---------------------------------------------------------------- C4
ReturnStepOn(m, b) == last'.op \in ReturnOps /\ last'.mgr = m /\ last'.arg = b

\* C4: returnVehicle(b) on a booking that is BOOKED or COMPLETED, or on an id
\* the service does not hold, returns False and changes no vehicle's
\* availability and no booking's status (so it frees no vehicle rented under
\* another booking).
C4_ReturnRefused ==
    [][ \A m \in Managers : \A b \in BookingIdArgs :
          ( /\ ReturnStepOn(m, b)
            /\ \/ b \notin DOMAIN booking_records[m]
               \/ booking_records[m][b].status \in {"BOOKED", "COMPLETED"} )
          => (last'.ret = FALSE /\ ServiceUnchanged)
      ]_vars

\* returnVehicle has just been refused on a BOOKED booking whose vehicle is
\* rented under another booking, and the vehicle is still unavailable.
C4_Witness ==
    /\ last.op = "returnVehicle" /\ last.ret = FALSE
    /\ last.arg \in DOMAIN booking_records[Service]
    /\ booking_records[Service][last.arg].status = "BOOKED"
    /\ \E b \in DOMAIN booking_records[Service] :
         /\ b # last.arg
         /\ booking_records[Service][b].status = "RENTED"
         /\ booking_records[Service][b].plate_number
              = booking_records[Service][last.arg].plate_number
    /\ \E pos \in VehiclePositions(Service) :
         /\ PlateUniqueInIndex(Service, pos)
         /\ VehicleAt(Service, pos).plate_number
              = booking_records[Service][last.arg].plate_number
         /\ ~ VehicleAt(Service, pos).vehicleisavailable

\* ---------------------------------------------------------------- C5
\* C5: a createBooking call, whether it returns an id or None, changes no
\* vehicle (so no vehicleisavailable flag) and leaves every booking that
\* existed before it as it was (so its status too).
C5_CreateBookingFrame ==
    [][ last'.op = "createBooking" =>
          /\ vehicle_loc_hashmap' = vehicle_loc_hashmap
          /\ \A m \in Managers : \A b \in DOMAIN booking_records[m] :
               /\ b \in DOMAIN booking_records'[m]
               /\ booking_records'[m][b] = booking_records[m][b]
      ]_vars

\* createBooking has just returned an id while a vehicle is rented: the rented
\* vehicle is still unavailable, its booking still RENTED.
C5_Witness ==
    /\ last.op = "createBooking" /\ last.ret # None
    /\ \E b \in DOMAIN booking_records[Service] :
         /\ b # last.ret[1]
         /\ booking_records[Service][b].status = "RENTED"
    /\ \E pos \in VehiclePositions(Service) :
         ~ VehicleAt(Service, pos).vehicleisavailable
    /\ \E pos \in VehiclePositions(Service) :
         /\ VehicleAt(Service, pos).plate_number
              = booking_records[Service][last.ret[1]].plate_number
         /\ VehicleAt(Service, pos).vehicleisavailable

\* ---------------------------------------------------------------- C6
\* Some vehicle in the list of `location` has the name and is available.
SomeAvailable(m, vehicle_name, location) ==
    /\ location \in DOMAIN vehicle_loc_hashmap[m]
    /\ \E i \in 1 .. Len(vehicle_loc_hashmap[m][location]) :
         /\ vehicle_loc_hashmap[m][location][i].vehicle_name = vehicle_name
         /\ vehicle_loc_hashmap[m][location][i].vehicleisavailable

\* C6: createBooking(user, name, location) with no available vehicle of that
\* name at that location (an unknown location included) returns None, adds no
\* booking, does not advance the id counter and changes no vehicle; with one,
\* it stores exactly one new booking, BOOKED, under the id it returns.
C6_CreateBookingOutcome ==
    [][ \A n \in VehicleNames, l \in Locations :
          createBooking(Service, DemoUser, n, l) =>
            IF SomeAvailable(Service, n, l)
            THEN /\ last'.ret # None
                 /\ last'.ret[1] \notin DOMAIN booking_records[Service]
                 /\ DOMAIN booking_records'[Service]
                      = DOMAIN booking_records[Service] \cup {last'.ret[1]}
                 /\ \A b \in DOMAIN booking_records[Service] :
                      booking_records'[Service][b] = booking_records[Service][b]
                 /\ booking_records'[Service][last'.ret[1]].status = "BOOKED"
                 /\ booking_records'[Service][last'.ret[1]].booking_id = last'.ret[1]
                 /\ vehicle_loc_hashmap' = vehicle_loc_hashmap
            ELSE /\ last'.ret = None
                 /\ booking_records' = booking_records
                 /\ booking_counter' = booking_counter
                 /\ vehicle_loc_hashmap' = vehicle_loc_hashmap
      ]_vars

\* createBooking has just returned None although the index holds vehicles, all
\* of them rented, and earlier bookings exist; the counter stands where the
\* last booking left it.
C6_Witness ==
    /\ last.op = "createBooking" /\ last.ret = None
    /\ VehiclePositions(Service) # {}
    /\ \A pos \in VehiclePositions(Service) : ~ VehicleAt(Service, pos).vehicleisavailable
    /\ DOMAIN booking_records[Service] = 1 .. (booking_counter - 1)
    /\ booking_counter = 2

\* ---------------------------------------------------------------- C7
\* All booking ids held by any service of the process.
AllBookingIds == UNION { DOMAIN booking_records[m] : m \in Managers }

\* Every booking is stored under its own id, the ids held are 1, 2, ... up to
\* the number of bookings created, and no two services hold the same id.
IdsAreCreationNumbers ==
    /\ \A m \in Managers : \A b \in DOMAIN booking_records[m] :
         booking_records[m][b].booking_id = b
    /\ AllBookingIds = 1 .. (booking_counter - 1)
    /\ \A m1 \in Managers, m2 \in Managers :
         m1 # m2 => DOMAIN booking_records[m1] \cap DOMAIN booking_records[m2] = {}

\* A call that creates a booking returns the counter's value and advances the
\* counter by one; no other call moves the counter.
CounterStep ==
    /\ (last'.op \in CreateOps /\ last'.ret # None)
         => /\ last'.ret = Some(booking_counter)
            /\ booking_counter' = booking_counter + 1
            /\ booking_counter \in DOMAIN booking_records'[last'.mgr]
    /\ booking_counter' # booking_counter
         => (last'.op \in CreateOps /\ last'.ret # None)

\* A stored booking stays stored, and only its status may change.
BookingsKeepIdentity ==
    \A m \in Managers : \A b \in DOMAIN booking_records[m] :
        /\ b \in DOMAIN booking_records'[m]
        /\ [booking_records'[m][b] EXCEPT !.status = booking_records[m][b].status]
             = booking_records[m][b]

\* C7: ids come from the one class counter: the k-th successful createBooking,
\* counted over all services, returns k, starting at 1; ids are never 0, never
\* reused and never shared; a booking's id, username, vehicle_name,
\* plate_number and location never change.
C7_IdsFromOneCounter ==
    /\ [] IdsAreCreationNumbers
    /\ [][CounterStep /\ BookingsKeepIdentity]_vars

\* Both services hold a booking, ids 1 and 2 between them, and one of the
\* bookings has moved on from BOOKED.
C7_Witness ==
    /\ booking_counter = 3
    /\ DOMAIN booking_records["m1"] # {} /\ DOMAIN booking_records["m2"] # {}
    /\ \E m \in Managers : \E b \in DOMAIN booking_records[m] :
         booking_records[m][b].status = "COMPLETED"

\* ---------------------------------------------------------------- C8
\* The ids listed for manager m, over all usernames, as a list.
ListedUnder(m, u) == IF u \in DOMAIN user_bookings[m] THEN user_bookings[m][u] ELSE << >>

\* Every listed id is a booking of the facade's service made for the username
\* it is listed under, and is listed once.
ListedAreOwnBookings ==
    \A m \in Managers :
        /\ \A u \in DOMAIN user_bookings[m] : \A i \in 1 .. Len(user_bookings[m][u]) :
             LET b == user_bookings[m][u][i]
             IN  /\ b \in DOMAIN booking_records[m]
                 /\ booking_records[m][b].username = u
                 /\ \A j \in 1 .. Len(user_bookings[m][u]) :
                      user_bookings[m][u][j] = b => j = i

\* A Userbookvehicle call that stored a booking returns its id and appends it
\* to the list of the booking's username, touching no other list; one that
\* stored none returns None and appends nothing; no other call touches the
\* lists.
FacadeStep ==
    IF last'.op = "Userbookvehicle"
    THEN LET m == last'.mgr
             new == DOMAIN booking_records'[m] \ DOMAIN booking_records[m]
         IN  IF new # {}
             THEN \E b \in new :
                    /\ new = {b}
                    /\ last'.ret = Some(b)
                    /\ LET u == booking_records'[m][b].username
                       IN  /\ DOMAIN user_bookings'[m] = DOMAIN user_bookings[m] \cup {u}
                           /\ user_bookings'[m][u] = Append(ListedUnder(m, u), b)
                           /\ \A w \in DOMAIN user_bookings[m] \ {u} :
                                user_bookings'[m][w] = user_bookings[m][w]
                    /\ \A k \in Managers \ {m} : user_bookings'[k] = user_bookings[k]
             ELSE last'.ret = None /\ user_bookings' = user_bookings
    ELSE user_bookings' = user_bookings

\* C8: every Userbookvehicle call whose createBooking produced a booking
\* returns that id, never None, and files it under the username; a failed one
\* files nothing; so the listed ids are exactly the bookings made through the
\* facade, each once, under the username the booking stores.
C8_FacadeFilesBookings ==
    /\ [] ListedAreOwnBookings
    /\ [][FacadeStep]_vars

\* Userbookvehicle has just filed a booking under the username asha, and its
\* service also holds a booking made without the facade, listed nowhere.
C8_Witness ==
    /\ last.op = "Userbookvehicle" /\ last.ret # None
    /\ \E u \in DOMAIN user_bookings[last.mgr] :
         /\ Len(user_bookings[last.mgr][u]) = 1
         /\ user_bookings[last.mgr][u][1] = last.ret[1]
         /\ u = "asha"
    /\ \E b \in DOMAIN booking_records[last.mgr] :
         \A u \in DOMAIN user_bookings[last.mgr] :
             \A i \in 1 .. Len(user_bookings[last.mgr][u]) : user_bookings[last.mgr][u][i] # b

\* ---------------------------------------------------------------- C9
Terminal == {"COMPLETED", "FAILED"}

\* The operation the facade call in progress created, if a call is in progress.
RunningId == IF running = None THEN 0 ELSE running[1].id

\* Stored operations stay stored; one that is COMPLETED or FAILED keeps its
\* status and its output; one that is PENDING changes only in the call that
\* created it, and only to COMPLETED or FAILED; a new one is PENDING with no
\* output; and the call that created an operation ends with it COMPLETED or
\* FAILED.
OperationStep ==
    /\ \A id \in DOMAIN operations :
         /\ id \in DOMAIN operations'
         /\ operations[id].status \in Terminal =>
              /\ operations'[id].status = operations[id].status
              /\ operations'[id].output_file = operations[id].output_file
         /\ (operations[id].status = "PENDING" /\ operations'[id] # operations[id]) =>
              /\ operations'[id].status \in Terminal
              /\ RunningId = id
    /\ \A id \in DOMAIN operations' \ DOMAIN operations :
         /\ operations'[id].status = "PENDING"
         /\ operations'[id].output_file = None
         /\ running' # None /\ running'[1].id = id
    /\ (running # None /\ running' = None) =>
         /\ operations'[RunningId].status \in Terminal
         /\ pdf_last'.ret = RunningId

\* An operation is PENDING only while the call that created it is in progress.
PendingOnlyWhileRunning ==
    \A id \in DOMAIN operations :
        /\ operations[id].status \in {"PENDING"} \cup Terminal
        /\ operations[id].status = "PENDING" => RunningId = id

\* C9: every Operation is created PENDING and makes exactly one transition, to
\* COMPLETED or FAILED, during the merge_pdf / compress_pdf / add_watermark
\* call that created it; afterwards its status and output_file never change,
\* whatever facade calls follow.
C9_OneTransition ==
    /\ [] PendingOnlyWhileRunning
    /\ [][OperationStep]_vars

\* A later call has finished while an earlier operation is FAILED and another
\* one COMPLETED with its output.
C9_Witness ==
    /\ running = None
    /\ \E i \in DOMAIN operations, j \in DOMAIN operations :
         /\ i < j /\ pdf_last.op = operations[j].type /\ pdf_last.ret = j
         /\ operations[i].status = "FAILED"
         /\ operations[j].status = "COMPLETED"
         /\ operations[j].output_file # None

\* ---------------------------------------------------------------- C10
\* C10 as stated: in every reachable state, whatever inputs were passed, a
\* stored operation's output_file is set if and only if its status is
\* COMPLETED. Refuted: compress_pdf(None) and add_watermark(None) complete
\* with output_file None.
C10_Original ==
    \A id \in DOMAIN operations :
        operations[id].output_file # None <=> operations[id].status = "COMPLETED"

\* C10 (amended): output_file is set only if the status is COMPLETED, and a
\* COMPLETED operation has its output_file set unless it is a COMPRESS or
\* WATERMARK operation whose input document was None.
C10_OutputOnlyIfCompleted ==
    \A id \in DOMAIN operations :
        LET o == operations[id]
        IN  /\ o.output_file # None => o.status = "COMPLETED"
            /\ (o.status = "COMPLETED" /\ o.output_file = None) =>
                 (o.type \in {"COMPRESS", "WATERMARK"} /\ o.input_files[1] = None)

\* The repository holds a merge that COMPLETED with an output and a merge of a
\* None input that FAILED without one.
C10_Witness ==
    /\ running = None
    /\ \E i \in DOMAIN operations, j \in DOMAIN operations :
         /\ operations[i].type = "MERGE" /\ operations[i].status = "COMPLETED"
         /\ operations[i].output_file # None
         /\ operations[j].type = "MERGE" /\ operations[j].status = "FAILED"
         /\ operations[j].output_file = None

\* ---------------------------------------------------------------- C15
\* The availability flag of the vehicle at pos, after the step.
AvailableAfter(m, pos) == vehicle_loc_hashmap'[m][pos[1]][pos[2]].vehicleisavailable

\* The step moves booking b of manager m, which references `plate` at
\* location l, from status `from` to status `to`.
BookingMoves(m, b, l, plate, from, to) ==
    /\ b \in DOMAIN booking_records[m]
    /\ booking_records[m][b].plate_number = plate
    /\ booking_records[m][b].location = l
    /\ booking_records[m][b].status = from
    /\ booking_records'[m][b].status = to

\* The step is a call that fails, or one of the calls that never write a flag.
LeavesFlagsAlone ==
    \/ last'.op \in {"addvehicle", "createBooking", "showBookings"}
    \/ (last'.op \in RentOps \cup ReturnOps /\ last'.ret = FALSE)

\* C15: a vehicle's flag goes True -> False only in a step where a rentVehicle
\* call moves a booking with that plate from BOOKED to RENTED, and goes
\* False -> True only in a step where a returnVehicle call moves a booking with
\* that plate from RENTED to COMPLETED; addvehicle, createBooking, showBookings
\* and every failing call leave all flags unchanged.
C15_FlagsFollowBookings ==
    [][ \A pos \in VehiclePositions(Service) :
          LET v == VehicleAt(Service, pos)
              before == v.vehicleisavailable
              after == AvailableAfter(Service, pos)
          IN  /\ (before /\ ~ after) =>
                   /\ last'.op = "rentVehicle" /\ last'.ret = TRUE
                   /\ BookingMoves(Service, last'.arg, pos[1], v.plate_number,
                                   "BOOKED", "RENTED")
              /\ (~ before /\ after) =>
                   /\ last'.op = "returnVehicle" /\ last'.ret = TRUE
                   /\ BookingMoves(Service, last'.arg, pos[1], v.plate_number,
                                   "RENTED", "COMPLETED")
              /\ LeavesFlagsAlone => after = before ]_vars

\* A returnVehicle has just freed one vehicle of a location while another
\* vehicle of that location, with another plate, is still out.
C15_Witness ==
    /\ last.op = "returnVehicle" /\ last.ret = TRUE
    /\ \E p \in VehiclePositions(Service), q \in VehiclePositions(Service) :
         /\ p[1] = q[1]
         /\ VehicleAt(Service, p).plate_number = booking_records[Service][last.arg].plate_number
         /\ VehicleAt(Service, p).vehicleisavailable
         /\ VehicleAt(Service, q).plate_number # VehicleAt(Service, p).plate_number
         /\ ~ VehicleAt(Service, q).vehicleisavailable

\* ---------------------------------------------------------------- C16
\* The moves a booking's status may make in one step.
ForwardMoves ==
    { << "BOOKED", "BOOKED" >>, << "RENTED", "RENTED" >>, << "COMPLETED", "COMPLETED" >>,
      << "BOOKED", "RENTED" >>, << "RENTED", "COMPLETED" >> }

\* The list holds each booking of the service's records once, and nothing else.
ListsAllBookings(list, m) ==
    /\ { list[i] : i \in 1 .. Len(list) } =
         { booking_records[m][b] : b \in DOMAIN booking_records[m] }
    /\ Len(list) = Cardinality(DOMAIN booking_records[m])

\* C16: a booking's status only moves forward along BOOKED -> RENTED ->
\* COMPLETED, one stage at a time, and a COMPLETED booking stays COMPLETED;
\* a booking is in booking_records from the createBooking that returned its id
\* on and is never removed, and showBookings returns every booking of the
\* records, each once.
C16_ForwardOnly ==
    [][ /\ \A b \in DOMAIN booking_records[Service] :
             /\ b \in DOMAIN booking_records'[Service]
             /\ << booking_records[Service][b].status,
                   booking_records'[Service][b].status >> \in ForwardMoves
        /\ (last'.op = "createBooking" /\ last'.ret # None)
             => last'.ret[1] \in DOMAIN booking_records'[Service]
        /\ last'.op = "showBookings" => ListsAllBookings(last'.ret, Service) ]_vars

\* showBookings has just returned two bookings, one of them COMPLETED.
C16_Witness ==
    /\ last.op = "showBookings" /\ Len(last.ret) = 2
    /\ last.ret[1].status = "COMPLETED"
    /\ last.ret[2].status \in {"BOOKED", "RENTED"}

\* ---------------------------------------------------------------- C17
\* Vehicle v is one createBooking may bind for the name n: the name matches
\* and the vehicle is available.
Eligible(v, n) == v.vehicle_name = n /\ v.vehicleisavailable

\* C17: a createBooking(name, location) that succeeds binds the booking to the
\* earliest vehicle of the location's list that has the name and is available:
\* every vehicle before it in the list has another name or is unavailable, the
\* vehicle is one of the requested location, and the new booking carries its
\* plate_number and its location.
C17_EarliestAvailableMatch ==
    [][ \A n \in VehicleNames, l \in Locations :
          (createBooking(Service, DemoUser, n, l) /\ last'.ret # None) =>
              LET vs == vehicle_loc_hashmap[Service][l]
                  booking == booking_records'[Service][last'.ret[1]]
              IN  \E i \in 1 .. Len(vs) :
                      /\ Eligible(vs[i], n)
                      /\ \A j \in 1 .. (i - 1) : ~ Eligible(vs[j], n)
                      /\ vs[i].vehicle_location = l
                      /\ booking.plate_number = vs[i].plate_number
                      /\ booking.location = l
                      /\ booking.vehicle_name = n ]_vars

\* Two vehicles of one name at one location: an earlier createBooking bound
\* the first while both were available, and the createBooking just made bound
\* the second, the first being out.
C17_Witness ==
    /\ last.op = "createBooking" /\ last.ret # None
    /\ \E l \in DOMAIN vehicle_loc_hashmap[Service] :
         LET vs == vehicle_loc_hashmap[Service][l]
         IN  /\ Len(vs) = 2 /\ vs[1].vehicle_name = vs[2].vehicle_name
             /\ vs[1].plate_number # vs[2].plate_number
             /\ ~ vs[1].vehicleisavailable
             /\ booking_records[Service][last.ret[1]].plate_number = vs[2].plate_number
             /\ \E b \in DOMAIN booking_records[Service] :
                  /\ booking_records[Service][b].plate_number = vs[1].plate_number
                  /\ booking_records[Service][b].status = "RENTED"

\* ---------------------------------------------------------------- C18
\* A booking references its vehicle by location and plate number: the
\* positions of manager m's index that booking b references.
ReferencedBy(m, b) ==
    { pos \in VehiclePositions(m) :
        /\ pos[1] = booking_records[m][b].location
        /\ VehicleAt(m, pos).plate_number = booking_records[m][b].plate_number }

\* Another booking of manager m on b's vehicle is RENTED.
VehicleOutOnAnother(m, b) ==
    \E b1 \in DOMAIN booking_records[m] \ {b} :
        /\ booking_records[m][b1].status = "RENTED"
        /\ booking_records[m][b1].location = booking_records[m][b].location
        /\ booking_records[m][b1].plate_number = booking_records[m][b].plate_number

\* rentVehicle(b) is called on a BOOKED booking whose vehicle is out on another.
RentWhileOut(m, b) ==
    /\ RentStepOn(m, b)
    /\ b \in DOMAIN booking_records[m]
    /\ booking_records[m][b].status = "BOOKED"
    /\ VehicleOutOnAnother(m, b)

\* rentVehicle(b) succeeds exactly when b exists, is BOOKED, and a vehicle it
\* references is available.
RentSucceedsIffAvailable(m, b) ==
    RentStepOn(m, b) =>
        (last'.ret = TRUE <=>
            /\ b \in DOMAIN booking_records[m]
            /\ booking_records[m][b].status = "BOOKED"
            /\ \E pos \in ReferencedBy(m, b) : VehicleAt(m, pos).vehicleisavailable)

Matching(m, n, l) ==
    { pos \in VehiclePositions(m) : pos[1] = l /\ VehicleAt(m, pos).vehicle_name = n }

\* The vehicle at pos is rented: it is unavailable and a RENTED booking
\* references it.
IsRented(m, pos) ==
    /\ ~ VehicleAt(m, pos).vehicleisavailable
    /\ \E b \in DOMAIN booking_records[m] :
         pos \in ReferencedBy(m, b) /\ booking_records[m][b].status = "RENTED"

\* The plates the vehicles of manager m carry.
PlatesOf(m) == { VehicleAt(m, pos).plate_number : pos \in VehiclePositions(m) }

\* createBooking(n, l) fails exactly when no vehicle of the name at the
\* location is available, whatever BOOKED bookings there are.
FailsIffNoneAvailable(m, n, l) ==
    last'.ret = None <=>
        \A pos \in Matching(m, n, l) : ~ VehicleAt(m, pos).vehicleisavailable

C20_RentedCanAlwaysReturn ==
    /\ [](\A b \in DOMAIN booking_records[Service] : ReferencedBy(Service, b) # {})
    /\ [][ /\ \A pos \in VehiclePositions(Service) :
                /\ pos \in VehiclePositions(Service)'
                /\ [vehicle_loc_hashmap'[Service][pos[1]][pos[2]]
                      EXCEPT !.vehicleisavailable = TRUE]
                     = [VehicleAt(Service, pos) EXCEPT !.vehicleisavailable = TRUE]
           /\ \A b \in DOMAIN booking_records[Service] :
                (ReturnStepOn(Service, b) /\ booking_records[Service][b].status = "RENTED")
                    => /\ last'.ret = TRUE
                       /\ booking_records'[Service][b].status = "COMPLETED" ]_vars

\* A returnVehicle has just completed a RENTED booking after a vehicle was
\* added behind the one it references.
C20_Witness ==
    /\ last.op = "returnVehicle" /\ last.ret = TRUE
    /\ booking_records[Service][last.arg].status = "COMPLETED"
    /\ \E pos \in ReferencedBy(Service, last.arg) :
         /\ VehicleAt(Service, pos).vehicleisavailable
         /\ pos[2] < Len(vehicle_loc_hashmap[Service][pos[1]])

\* ---------------------------------------------------------------- C11
\* The step is the second half of a facade call: its try/except block.
ExecuteStep == running # None /\ running' = None

\* The transformation of the operation raises: merge reads .pages of both
\* arguments, so it raises on a None argument; compress and add_watermark
\* return their argument untouched and raise on no argument.
TransformationRaises(operation) ==
    /\ operation.type = "MERGE"
    /\ \E k \in 1 .. Len(operation.input_files) : operation.input_files[k] = None

\* The ids of the list, as a set.
Listed(list) == { list[k] : k \in 1 .. Len(list) }

\* C11: when the transformation of a facade call raises, the call still
\* returns the new operation's id; the operation is in the repository and in
\* the user's operation list with status FAILED and output_file None; no other
\* operation and no stored file is changed.
C11_FaultIsRecorded ==
    [][ (ExecuteStep /\ TransformationRaises(operations[RunningId])) =>
          LET id == RunningId
              u == operations[RunningId].user
          IN  /\ pdf_last'.op = operations[id].type /\ pdf_last'.ret = id
              /\ DOMAIN operations' = DOMAIN operations
              /\ operations'[id].status = "FAILED"
              /\ operations'[id].output_file = None
              /\ id \in Listed(user_operations'[u][u])
              /\ \A j \in DOMAIN operations \ {id} : operations'[j] = operations[j]
              /\ storage' = storage /\ user_files' = user_files ]_vars

\* A merge_pdf with a None argument has just returned its id, the operation
\* FAILED without output, beside a stored file and a COMPLETED operation.
C11_Witness ==
    /\ running = None /\ pdf_last.op = "MERGE"
    /\ operations[pdf_last.ret].status = "FAILED"
    /\ operations[pdf_last.ret].output_file = None
    /\ operations[pdf_last.ret].input_files[1] = None
    /\ DOMAIN storage # {}
    /\ \E j \in DOMAIN operations : operations[j].status = "COMPLETED"

\* ---------------------------------------------------------------- C12
\* The repository holds an operation with this id whose status is COMPLETED.
HoldsCompleted(id) == id \in DOMAIN operations /\ operations[id].status = "COMPLETED"

\* C12: download_result(id) returns the operation's output_file when the
\* repository holds an operation with that id whose status is COMPLETED; for
\* an operation that is PENDING or FAILED and for an id the repository does
\* not hold it returns None; it changes no state.
C12_ResultOnlyWhenCompleted ==
    [][ \A u \in PdfUsers, id \in IdArgs :
          download_result(u, id) =>
              /\ HoldsCompleted(id) => pdf_last'.ret = operations[id].output_file
              /\ ~ HoldsCompleted(id) => pdf_last'.ret = None
              /\ operations' = operations /\ user_operations' = user_operations
              /\ storage' = storage /\ user_files' = user_files
              /\ running' = running /\ uuid_issued' = uuid_issued ]_vars

\* download_result has just handed out the output of a COMPLETED operation
\* while another operation is PENDING.
C12_Witness ==
    /\ pdf_last.op = "download_result"
    /\ pdf_last.arg \in DOMAIN operations
    /\ operations[pdf_last.arg].status = "COMPLETED"
    /\ pdf_last.ret # None /\ pdf_last.ret = operations[pdf_last.arg].output_file
    /\ running # None

\* ---------------------------------------------------------------- C13
\* Sequence c is a followed by b: as long as both together, the elements of a
\* at their places and those of b behind them.
IsConcatenation(c, a, b) ==
    /\ Len(c) = Len(a) + Len(b)
    /\ \A i \in 1 .. Len(a) : c[i] = a[i]
    /\ \A j \in 1 .. Len(b) : c[Len(a) + j] = b[j]

\* The operation is a merge of two documents.
MergesDocuments(operation) ==
    /\ operation.type = "MERGE"
    /\ operation.input_files[1] # None /\ operation.input_files[2] # None

\* The document is the merge of the operation's two input documents.
IsMergeOf(doc, operation) ==
    IsConcatenation(doc.pages, operation.input_files[1][1].pages,
                    operation.input_files[2][1].pages)

\* C13: merge(A, B) returns a new document whose pages are A.pages followed by
\* B.pages, leaving A and B as they were; download_result of a merge_pdf(A, B)
\* operation returns a document with exactly that page sequence.
C13_MergeConcatenates ==
    [][ /\ (ExecuteStep /\ MergesDocuments(operations[RunningId])) =>
             LET before == operations[RunningId]
                 after == operations'[RunningId]
             IN  /\ after.status = "COMPLETED" /\ after.output_file # None
                 /\ IsMergeOf(after.output_file[1], before)
                 /\ after.output_file[1].id \notin
                      { before.input_files[k][1].id : k \in 1 .. 2 }
                 /\ after.input_files = before.input_files
        /\ \A u \in PdfUsers, id \in IdArgs :
             (download_result(u, id) /\ id \in DOMAIN operations
                /\ MergesDocuments(operations[id]) /\ operations[id].status # "PENDING")
               => (pdf_last'.ret # None /\ IsMergeOf(pdf_last'.ret[1], operations[id])) ]_vars

\* download_result has just returned the pages 1..5 for the merge of the
\* demo's documents [1,2,3] and [4,5], and a merge of a merged document with
\* itself is stored.
C13_Witness ==
    /\ pdf_last.op = "download_result" /\ pdf_last.ret # None
    /\ pdf_last.arg \in DOMAIN operations
    /\ operations[pdf_last.arg].type = "MERGE"
    /\ operations[pdf_last.arg].input_files[1][1].pages = << 1, 2, 3 >>
    /\ operations[pdf_last.arg].input_files[2][1].pages = << 4, 5 >>
    /\ pdf_last.ret[1].pages = << 1, 2, 3, 4, 5 >>
    /\ \E j \in DOMAIN operations :
         /\ operations[j].type = "MERGE" /\ operations[j].status = "COMPLETED"
         /\ operations[j].input_files[1] = Some(pdf_last.ret[1])
         /\ operations[j].input_files[2] = Some(pdf_last.ret[1])

\* ---------------------------------------------------------------- C14
\* The ids upload has returned: those filed in the lists of the file managers.
UploadedIds ==
    UNION { UNION { Listed(user_files[u][k]) : k \in DOMAIN user_files[u] } :
              u \in PdfUsers }

\* Every stored file is still stored, unchanged, after the step.
FilesKept ==
    \A k \in DOMAIN storage : k \in DOMAIN storage' /\ storage'[k] = storage[k]

\* C14: upload returns an id that was no key of storage before the call and
\* stores the object under it, so no upload overwrites an earlier file; the
\* keys of storage are exactly the ids upload has returned and no step changes
\* a stored file, so download of such an id returns the object uploaded under
\* it after any number of further uploads; download of any other id returns
\* None.
C14_UploadDownloadRoundTrip ==
    /\ [](DOMAIN storage = UploadedIds)
    /\ [][ /\ FilesKept
           /\ \A u \in PdfUsers, f \in FileInputs :
                upload_file(u, f) =>
                    /\ pdf_last'.ret \notin DOMAIN storage
                    /\ DOMAIN storage' = DOMAIN storage \cup {pdf_last'.ret}
                    /\ storage'[pdf_last'.ret] = f
           /\ \A u \in PdfUsers, id \in IdArgs :
                download_file(u, id) =>
                    /\ id \in UploadedIds => pdf_last'.ret = storage[id]
                    /\ id \notin UploadedIds => pdf_last'.ret = None
                    /\ storage' = storage ]_vars

\* download has just returned the document of the first upload, after a
\* second upload and with an operation's token drawn in between.
C14_Witness ==
    /\ pdf_last.op = "download_file" /\ pdf_last.ret # None
    /\ pdf_last.arg \in DOMAIN storage /\ pdf_last.ret = storage[pdf_last.arg]
    /\ \E k \in DOMAIN storage : k > pdf_last.arg + 1
    /\ (pdf_last.arg + 1) \in DOMAIN operations

SpecPdf == Init /\ [][PdfNext]_vars

=============================================================================
